---- MODULE Spec2Model ----
(***************************************************************************)
(* Website Intelligence Engine (backend/website_intelligence.py).          *)
(*                                                                         *)
(* The crawl of one site is modelled as the coroutine crawl_website with   *)
(* its single suspension point (the HTTP GET inside analyze_page).  A URL  *)
(* string is a record [netloc, path, fragment]; a path is the string split *)
(* at '/', so "" is <<"">>, "/" is <<"", "">> and "/about" is              *)
(* <<"", "about">>.  All crawled URLs have the scheme https.               *)
(***************************************************************************)
EXTENDS Integers, Sequences, FiniteSets, TLC

(* ------------------------------ bounds --------------------------------- *)
MaxPagesBound == 3      \* max_pages is drawn from 0..MaxPagesBound
MaxDepthBound == 2      \* max_depth is drawn from 0..MaxDepthBound
MaxFailures   == 2      \* fetch failures the environment injects per crawl

(* ------------------------------- URLs ---------------------------------- *)
Domain == "d"

EmptyPath   == <<"">>
RootPath    == <<"", "">>
AboutPath   == <<"", "about">>
ContactPath == <<"", "contact">>

Url(n, p, f) == [netloc |-> n, path |-> p, fragment |-> f]

\* f"https://{domain}"
SeedUrl(domain) == Url(domain, EmptyPath, "")

\* An href attribute as written in the page.
\*   abs      https://netloc/path#fragment
\*   rootrel  /path#fragment
\*   frag     #fragment
\*   mailto   mailto:...
Href(k, n, p, f) == [kind |-> k, netloc |-> n, path |-> p, fragment |-> f]

hRoot     == Href("rootrel", "", RootPath, "")
hAbout    == Href("rootrel", "", AboutPath, "")
hContact  == Href("rootrel", "", ContactPath, "")
hAboutTop == Href("rootrel", "", AboutPath, "top")
hFragTop  == Href("frag", "", EmptyPath, "top")
hAbsHome  == Href("abs", Domain, EmptyPath, "")
hAbsAbout == Href("abs", Domain, AboutPath, "")
hExt      == Href("abs", "e", <<"", "x">>, "")
hMail     == Href("mailto", "", EmptyPath, "")

\* urllib.parse.urljoin(base_url, href) for the href shapes above: an absolute
\* href is kept as written, a root-relative one takes the base's host, a bare
\* fragment keeps the base's host and path; the base's own fragment is dropped
\* and nothing is normalised.
urljoin(base, href) ==
    CASE href.kind = "abs"     -> Url(href.netloc, href.path, href.fragment)
      [] href.kind = "rootrel" -> Url(base.netloc, href.path, href.fragment)
      [] href.kind = "frag"    -> Url(base.netloc, base.path, href.fragment)
      [] OTHER                 -> Url("", EmptyPath, "")

\* extract_links: the internal links of a page, in document order, duplicates
\* kept; a link is internal when its netloc equals the base URL's netloc.
RECURSIVE InternalLinks(_, _)
InternalLinks(hrefs, base) ==
    IF hrefs = <<>> THEN <<>>
    ELSE LET u == urljoin(base, Head(hrefs))
             rest == InternalLinks(Tail(hrefs), base)
         IN IF u.netloc = base.netloc THEN <<u>> \o rest ELSE rest

RECURSIVE ExternalLinks(_, _)
ExternalLinks(hrefs, base) ==
    IF hrefs = <<>> THEN <<>>
    ELSE LET u == urljoin(base, Head(hrefs))
             rest == ExternalLinks(Tail(hrefs), base)
         IN IF u.netloc # base.netloc /\ u.netloc # "" THEN <<u>> \o rest ELSE rest

(* --------------------------- the web site ------------------------------ *)
\* The pages the server of Domain serves, by request path.
Pages == {RootPath, AboutPath, ContactPath}

\* The request aiohttp sends for a URL: the fragment is not sent and an empty
\* path is requested as "/".
RequestPath(url) == IF url.path = EmptyPath THEN RootPath ELSE url.path

LinkLists ==
    { <<>>,
      <<hAbout, hContact>>,
      <<hAbout, hAbout>>,
      <<hRoot, hContact>>,
      <<hAboutTop, hFragTop>>,
      <<hContact, hAbout, hAbsAbout>>,
      <<hAbsHome, hExt, hMail>> }

\* Further anchor lists of the home page: five internal links written
\* root-relative, five written as absolute same-host URLs, and three hrefs
\* of which only the fragment is an internal link.
HomeLinkLists ==
    { <<hAbout, hContact, hRoot, hAboutTop, hAbout>>,
      <<hAbsAbout, hAbsHome, hAbsAbout, hAbsHome, hAbsAbout>>,
      <<hFragTop, hMail, hMail>> }

Sites ==
    { w \in [Pages -> LinkLists \cup HomeLinkLists] :
        \A page \in Pages \ {RootPath} : w[page] \in LinkLists }

\* What the analyzer reads in a document (the HTML itself is not modelled):
\*   title          words of the <title> text, lowercased (<<>>: no title)
\*   description    a meta description with content is present
\*   h1_count       number of <h1> elements
\*   word_count     len(content.split())
\*   reading_level  textstat.flesch_reading_ease(content), as a whole number
\*   images, images_alt   <img> elements, and those with an alt text
\*   viewport       a meta viewport tag is present
\*   hits           keyword hits in the content per intent category
\*   cues           journey stages whose cue words occur in the content
\*   nav, conv, forms     navigation elements, conversion elements, forms
\*   contact        an e-mail address or phone number occurs
\*   content_words  the query words that occur in the lowercased content
\*   keywords       extract_keywords(content)
\*   accessibility_score  calculate_accessibility_score(soup)
Intents == <<"product_inquiry", "support", "navigation", "contact",
             "information", "conversion">>

Hits(pi, su, na, co, inf, cv) ==
    [product_inquiry |-> pi, support |-> su, navigation |-> na,
     contact |-> co, information |-> inf, conversion |-> cv]

HomeDoc ==
    [title |-> <<"home">>, description |-> TRUE, h1_count |-> 1,
     word_count |-> 350, reading_level |-> 50, images |-> 0, images_alt |-> 0,
     viewport |-> TRUE, hits |-> Hits(3, 0, 1, 0, 0, 0),
     cues |-> {"consideration"}, nav |-> 1, conv |-> 1, forms |-> 0,
     contact |-> FALSE, content_words |-> {"prices", "price", "your"},
     keywords |-> <<"prices", "plans">>, accessibility_score |-> 80]

AboutDoc ==
    [title |-> <<"about", "us">>, description |-> FALSE, h1_count |-> 2,
     word_count |-> 120, reading_level |-> 25, images |-> 4, images_alt |-> 3,
     viewport |-> FALSE, hits |-> Hits(0, 0, 0, 1, 2, 0),
     cues |-> {}, nav |-> 0, conv |-> 0, forms |-> 0,
     contact |-> FALSE, content_words |-> {"your", "team"},
     keywords |-> <<"team">>, accessibility_score |-> 65]

ContactDoc ==
    [title |-> <<>>, description |-> TRUE, h1_count |-> 0,
     word_count |-> 40, reading_level |-> 75, images |-> 2, images_alt |-> 2,
     viewport |-> TRUE, hits |-> Hits(0, 2, 0, 3, 0, 0),
     cues |-> {"decision"}, nav |-> 1, conv |-> 2, forms |-> 1,
     contact |-> TRUE, content_words |-> {"help"},
     keywords |-> <<"help", "support">>, accessibility_score |-> 100]

Document(path) ==
    CASE path = RootPath -> HomeDoc
      [] path = AboutPath -> AboutDoc
      [] OTHER -> ContactDoc

(* ---------------------------- page analysis ---------------------------- *)
\* The page-type patterns a path segment starts with ('/about' occurs in the
\* URL string exactly when some segment that follows a '/' starts with it).
SegmentPatterns(seg) ==
    CASE seg = "about"    -> {"/about"}
      [] seg = "contact"  -> {"/contact"}
      [] seg = "blog"     -> {"/blog"}
      [] seg = "services" -> {"/service"}
      [] seg = "product"  -> {"/product"}
      [] OTHER            -> {}

UrlPatterns(url) ==
    UNION { SegmentPatterns(url.path[i]) : i \in 2..Len(url.path) }

\* url_lower.endswith('/') or url_lower.endswith('index')
EndsLikeHome(url) ==
    /\ url.fragment = ""
    /\ Len(url.path) >= 2
    /\ url.path[Len(url.path)] \in {"", "index"}

classify_page_type(url) ==
    LET pats == UrlPatterns(url) IN
    IF pats \cap {"/product", "/shop", "/buy"} # {} THEN "product"
    ELSE IF pats \cap {"/about", "/company"} # {} THEN "about"
    ELSE IF pats \cap {"/contact", "/support"} # {} THEN "contact"
    ELSE IF pats \cap {"/blog", "/news", "/article"} # {} THEN "content"
    ELSE IF pats \cap {"/service", "/solution"} # {} THEN "service"
    ELSE IF EndsLikeHome(url) THEN "homepage"
    ELSE "general"

\* Intents whose keyword-hit count reaches the threshold 2, in the order of
\* intent_patterns.
classify_content_intent(hits) ==
    SelectSeq(Intents, LAMBDA i : hits[i] >= 2)

determine_journey_stage(page_type, cues) ==
    IF "awareness" \in cues \/ page_type \in {"content", "about"} THEN "awareness"
    ELSE IF "consideration" \in cues \/ page_type = "service" THEN "consideration"
    ELSE IF "decision" \in cues \/ page_type \in {"product", "contact"} THEN "decision"
    ELSE "awareness"

\* not link['href'].startswith('http'): of the href shapes, only the
\* absolute ones start with "http".
StartsWithHttp(href) == href.kind = "abs"

\* len([link for link in soup.find_all('a', href=True)
\*      if not link['href'].startswith('http')])
NonHttpHrefs(hrefs) == Len(SelectSeq(hrefs, LAMBDA h : ~StartsWithHttp(h)))

\* the points of calculate_seo_score that do not depend on the links
SeoBasePoints(doc) ==
      (IF doc.title # <<>> THEN 20 ELSE 0)
    + (IF doc.description THEN 15 ELSE 0)
    + (IF doc.h1_count >= 1 THEN 15 ELSE 0)
    + (IF doc.word_count >= 300 THEN 20 ELSE IF doc.word_count >= 100 THEN 10 ELSE 0)
    + (IF doc.images > 0 /\ 10 * doc.images_alt >= 8 * doc.images THEN 10 ELSE 0)
    + (IF doc.viewport THEN 10 ELSE 0)

SeoLinkPoints(hrefs) == IF NonHttpHrefs(hrefs) >= 3 THEN 10 ELSE 0

calculate_seo_score(doc, hrefs) ==
    LET score == SeoBasePoints(doc) + SeoLinkPoints(hrefs)
    IN IF score <= 100 THEN score ELSE 100

\* The PageData analyze_page builds from a 200 response whose document is
\* doc and whose anchors are hrefs, at the time now.
AnalyzeDocument(url, doc, hrefs, now) ==
    LET pt == classify_page_type(url)
    IN [url |-> url,
        title |-> doc.title,
        description |-> doc.description,
        content_words |-> doc.content_words,
        word_count |-> doc.word_count,
        reading_level |-> doc.reading_level,
        keywords |-> doc.keywords,
        internal_links |-> InternalLinks(hrefs, url),
        external_links |-> ExternalLinks(hrefs, url),
        images |-> doc.images,
        forms |-> doc.forms,
        contact_info |-> doc.contact,
        navigation_elements |-> doc.nav,
        conversion_elements |-> doc.conv,
        last_crawled |-> now,
        page_type |-> pt,
        intent_categories |-> classify_content_intent(doc.hits),
        user_journey_stage |-> determine_journey_stage(pt, doc.cues),
        seo_score |-> calculate_seo_score(doc, hrefs),
        accessibility_score |-> doc.accessibility_score]

\* analyze_page on a 200 response: the PageData of the document served for url.
analyze_page(url, web, now) ==
    AnalyzeDocument(url, Document(RequestPath(url)), web[RequestPath(url)], now)

(* -------------------------- site model builder ------------------------- *)
\* site_map is a Python dict keyed by URL; it is modelled as the sequence of
\* its PageData values in insertion order (each value carries its key).
Keys(site_map) == { site_map[i].url : i \in 1..Len(site_map) }

\* site_map[url] = page_data
DictSet(site_map, url, page_data) ==
    IF \E i \in 1..Len(site_map) : site_map[i].url = url
    THEN [i \in 1..Len(site_map) |->
             IF site_map[i].url = url THEN page_data ELSE site_map[i]]
    ELSE Append(site_map, page_data)

\* [url for url, page in pages.items()]
UrlsOf(pages) == [i \in 1..Len(pages) |-> pages[i].url]

\* sum(values)
RECURSIVE Sum(_)
Sum(values) == IF values = <<>> THEN 0 ELSE Head(values) + Sum(Tail(values))

\* mutant: the sum is not divided by the number of values
Mean_NoDivide(values) == Sum(values)

\* float(np.mean(values)) if site_map else 0, truncated to a whole number
Mean(values) ==
    IF values = <<>> THEN 0 ELSE Sum(values) \div Len(values)

\* the per-page values of the generator expressions over site_map.values()
SeoScores(site_map) == [i \in 1..Len(site_map) |-> site_map[i].seo_score]
AccessibilityScores(site_map) ==
    [i \in 1..Len(site_map) |-> site_map[i].accessibility_score]
WordCounts(site_map) == [i \in 1..Len(site_map) |-> site_map[i].word_count]
ReadingLevels(site_map) == [i \in 1..Len(site_map) |-> site_map[i].reading_level]
ConversionCounts(site_map) ==
    [i \in 1..Len(site_map) |-> site_map[i].conversion_elements]
FormCounts(site_map) == [i \in 1..Len(site_map) |-> site_map[i].forms]
LinkCounts(site_map) ==
    [i \in 1..Len(site_map) |-> Len(site_map[i].internal_links)]

Min(a, b) == IF a <= b THEN a ELSE b

\* urlparse(url).path.strip('/').split('/')
RECURSIVE StripLeft(_)
StripLeft(p) == IF p # <<>> /\ Head(p) = "" THEN StripLeft(Tail(p)) ELSE p

RECURSIVE StripRight(_)
StripRight(p) ==
    IF p # <<>> /\ p[Len(p)] = "" THEN StripRight(SubSeq(p, 1, Len(p) - 1)) ELSE p

PathParts(url) ==
    LET q == StripRight(StripLeft(url.path))
    IN IF q = <<>> THEN <<"">> ELSE q

\* page_hierarchy: parent path (the parts but the last) -> URLs, for the
\* pages whose path has more than one part.
HierarchyParent(url) == SubSeq(PathParts(url), 1, Len(PathParts(url)) - 1)

page_hierarchy(site_map) ==
    LET nested(p) == Len(PathParts(p.url)) > 1
        parents == { HierarchyParent(site_map[i].url) :
                       i \in { j \in 1..Len(site_map) : nested(site_map[j]) } }
    IN [par \in parents |->
           UrlsOf(SelectSeq(site_map,
                            LAMBDA p : nested(p) /\ HierarchyParent(p.url) = par))]

\* mutant: the links are kept whether or not their page was crawled
navigation_paths_Unfiltered(site_map) ==
    [u \in Keys(site_map) |->
        LET p == CHOOSE q \in { site_map[i] : i \in 1..Len(site_map) } : q.url = u
        IN p.internal_links]

\* navigation_paths: url -> its internal links that are keys of site_map
navigation_paths(site_map) ==
    [u \in Keys(site_map) |->
        LET p == CHOOSE q \in { site_map[i] : i \in 1..Len(site_map) } : q.url = u
        IN SelectSeq(p.internal_links, LAMBDA l : l \in Keys(site_map))]

RECURSIVE Funnels(_, _, _)
Funnels(aw, co, de) ==
    IF aw = <<>> THEN <<>>
    ELSE [k \in 1..(Len(co) * Len(de)) |->
             <<Head(aw), co[((k - 1) \div Len(de)) + 1], de[((k - 1) % Len(de)) + 1]>>]
         \o Funnels(Tail(aw), co, de)

Take(seq, n) == SubSeq(seq, 1, Min(n, Len(seq)))

\* mutant: the list of funnels is not cut to its first five
identify_conversion_funnels_NoCap(site_map) ==
    LET InStage(stage) ==
            UrlsOf(SelectSeq(site_map, LAMBDA p : p.user_journey_stage = stage))
        aw == InStage("awareness")
        co == InStage("consideration")
        de == InStage("decision")
    IN Funnels(Take(aw, 3), Take(co, 2), Take(de, 2))

identify_conversion_funnels(site_map) ==
    LET InStage(stage) ==
            UrlsOf(SelectSeq(site_map, LAMBDA p : p.user_journey_stage = stage))
        aw == InStage("awareness")
        co == InStage("consideration")
        de == InStage("decision")
    IN Take(Funnels(Take(aw, 3), Take(co, 2), Take(de, 2)), 5)

InSeq(x, seq) == \E i \in 1..Len(seq) : seq[i] = x

\* categorize_content: category key -> URLs.  The keys are the page types,
\* "intent_<i>" and "journey_<stage>", modelled as <<"type", t>>,
\* <<"intent", i>> and <<"journey", s>>.
\* mutant: the URL is not added under its journey_<stage> key
CategoryMember_NoJourney(key, p) ==
    \/ key = <<"type", p.page_type>>
    \/ key[1] = "intent" /\ InSeq(key[2], p.intent_categories)

CategoryMember(key, p) ==
    \/ key = <<"type", p.page_type>>
    \/ key[1] = "intent" /\ InSeq(key[2], p.intent_categories)
    \/ key = <<"journey", p.user_journey_stage>>

categorize_content(site_map) ==
    LET ps == { site_map[i] : i \in 1..Len(site_map) }
        ks == { <<"type", p.page_type>> : p \in ps }
              \cup UNION { { <<"intent", p.intent_categories[i]>> :
                               i \in 1..Len(p.intent_categories) } : p \in ps }
              \cup { <<"journey", p.user_journey_stage>> : p \in ps }
    IN [key \in ks |->
           UrlsOf(SelectSeq(site_map, LAMBDA p : CategoryMember(key, p)))]

\* intent_mapping: intent -> URLs of the pages classified with it
intent_mapping(site_map) ==
    LET ps == { site_map[i] : i \in 1..Len(site_map) }
        ks == UNION { { p.intent_categories[i] :
                          i \in 1..Len(p.intent_categories) } : p \in ps }
    IN [intent \in ks |->
           UrlsOf(SelectSeq(site_map,
                            LAMBDA p : InSeq(intent, p.intent_categories)))]

\* mutant: the support intent is tested before the homepage and
\* product_inquiry tests
JourneyFlow_SupportFirst(p) ==
    IF InSeq("support", p.intent_categories) THEN "support_flow"
    ELSE IF p.page_type = "homepage" THEN "product_discovery"
    ELSE IF InSeq("product_inquiry", p.intent_categories) THEN "product_discovery"
    ELSE IF p.user_journey_stage = "awareness" THEN "awareness_to_consideration"
    ELSE IF p.user_journey_stage = "decision" THEN "consideration_to_decision"
    ELSE "none"

\* build_user_journey_flows: the first matching branch places the page.
JourneyFlow(p) ==
    IF p.page_type = "homepage" THEN "product_discovery"
    ELSE IF InSeq("product_inquiry", p.intent_categories) THEN "product_discovery"
    ELSE IF InSeq("support", p.intent_categories) THEN "support_flow"
    ELSE IF p.user_journey_stage = "awareness" THEN "awareness_to_consideration"
    ELSE IF p.user_journey_stage = "decision" THEN "consideration_to_decision"
    ELSE "none"

FlowNames == {"awareness_to_consideration", "consideration_to_decision",
              "support_flow", "product_discovery"}

build_user_journey_flows(site_map) ==
    [flow \in FlowNames |->
        UrlsOf(SelectSeq(site_map, LAMBDA p : JourneyFlow(p) = flow))]

\* mutant: the guard for an empty site_map is missing
calculate_navigation_efficiency_NoGuard(site_map) ==
    LET total == Sum(LinkCounts(site_map))
        n     == Len(site_map)
    IN IF 3 * n <= total /\ total <= 5 * n /\ n > 0 THEN 100
       ELSE IF 2 * n <= total /\ total <= 6 * n /\ n > 0 THEN 80
       ELSE IF 1 * n <= total /\ total <= 7 * n /\ n > 0 THEN 60
       ELSE 40

\* calculate_navigation_efficiency: the average of internal links per page,
\* total / pages, is compared exactly (3 <= total/pages iff 3*pages <= total).
calculate_navigation_efficiency(site_map) ==
    IF site_map = <<>> THEN 0
    ELSE LET total == Sum(LinkCounts(site_map))
             n     == Len(site_map)
         IN IF 3 * n <= total /\ total <= 5 * n THEN 100
            ELSE IF 2 * n <= total /\ total <= 6 * n THEN 80
            ELSE IF 1 * n <= total /\ total <= 7 * n THEN 60
            ELSE 40

\* the per-page rubric of calculate_ux_score
PageUxScore(p) ==
      (IF p.word_count >= 300 THEN 20 ELSE IF p.word_count >= 100 THEN 10 ELSE 0)
    + (IF 30 <= p.reading_level /\ p.reading_level <= 60 THEN 20
       ELSE IF 20 <= p.reading_level /\ p.reading_level <= 70 THEN 10 ELSE 0)
    + (IF p.navigation_elements > 0 THEN 15 ELSE 0)
    + (IF Len(p.internal_links) >= 3 THEN 15
       ELSE IF Len(p.internal_links) >= 1 THEN 10 ELSE 0)
    + (IF p.conversion_elements > 0 THEN 15 ELSE 0)
    + (IF p.forms > 0 THEN 10 ELSE 0)
    + (IF p.contact_info THEN 5 ELSE 0)

calculate_ux_score(site_map) ==
    IF site_map = <<>> THEN 0 ELSE Mean([i \in 1..Len(site_map) |-> PageUxScore(site_map[i])])

calculate_roi_metrics(domain, site_map) ==
    [total_pages_analyzed |-> Len(site_map),
     avg_seo_score |-> Mean(SeoScores(site_map)),
     avg_accessibility_score |-> Mean(AccessibilityScores(site_map)),
     total_conversion_elements |-> Sum(ConversionCounts(site_map)),
     lead_generation_potential |-> Sum(FormCounts(site_map)),
     avg_content_length |-> Mean(WordCounts(site_map)),
     avg_reading_level |-> Mean(ReadingLevels(site_map)),
     intent_coverage_score |-> Cardinality(DOMAIN intent_mapping(site_map)),
     navigation_efficiency |-> calculate_navigation_efficiency(site_map),
     content_optimization_score |->
         IF site_map = <<>> THEN 0
         ELSE Min(100, (Sum(SeoScores(site_map)) + Sum(AccessibilityScores(site_map)))
                       \div (2 * Len(site_map))),
     user_experience_score |-> calculate_ux_score(site_map)]

build_site_structure(domain, site_map, now) ==
    [domain |-> domain,
     total_pages |-> Len(site_map),
     page_hierarchy |-> page_hierarchy(site_map),
     navigation_paths |-> navigation_paths(site_map),
     conversion_funnels |-> identify_conversion_funnels(site_map),
     content_categories |-> categorize_content(site_map),
     intent_mapping |-> intent_mapping(site_map),
     user_journey_flows |-> build_user_journey_flows(site_map),
     site_map |-> site_map,
     crawl_depth |-> 3,
     last_full_crawl |-> now,
     roi_metrics |-> calculate_roi_metrics(domain, site_map)]

(* ----------------------------- persistence ---------------------------- *)
\* The id of the crawled site in the sites collection (a uuid4 string), by
\* which the endpoints look the site's intelligence up.
SiteId == "site-1"

\* structure_data.get("site_id", structure_data["domain"])
StoreKey(structure_data) ==
    IF "site_id" \in DOMAIN structure_data
    THEN structure_data.site_id
    ELSE structure_data.domain

\* mutant: the pages of the stored site_map that the new one lacks are kept
\* (the site_map is merged instead of being set as a whole)
update_one_upsert_Merge(collection, key, data) ==
    LET old == IF key \in DOMAIN collection
               THEN collection[key]
               ELSE [site_id |-> key]
        merged == IF "site_map" \in DOMAIN old
                  THEN [data EXCEPT !.site_map =
                           @ \o SelectSeq(old.site_map,
                                          LAMBDA p : p.url \notin Keys(data.site_map))]
                  ELSE data
        new == merged @@ old
    IN (key :> new) @@ collection

\* collection.update_one({"site_id": key}, {"$set": data}, upsert=True): the
\* fields of data are set on the document whose site_id is key; when there is
\* none, one is inserted with that site_id.
update_one_upsert(collection, key, data) ==
    LET old == IF key \in DOMAIN collection
               THEN collection[key]
               ELSE [site_id |-> key]
        new == data @@ old
    IN (key :> new) @@ collection

\* datetime.isoformat(): the string written for the time t
isoformat(t) == <<"iso", t>>

\* WebsiteIntelligenceEngine.store_site_structure: asdict(site_structure)
\* with the two datetimes replaced by their ISO strings.
StructureData(site_structure) ==
    [site_structure EXCEPT
        !.site_map = [i \in 1..Len(site_structure.site_map) |->
                         [site_structure.site_map[i] EXCEPT
                             !.last_crawled = isoformat(@)]],
        !.last_full_crawl = isoformat(@)]

\* DatabaseService.store_site_structure
store_site_structure(collection, structure_data) ==
    update_one_upsert(collection, StoreKey(structure_data), structure_data)

\* DatabaseService.get_site_intelligence: find_one({"site_id": site_id}),
\* <<document>> when one is found and <<>> for None.
get_site_intelligence(collection, site_id) ==
    IF site_id \in DOMAIN collection THEN <<collection[site_id]>> ELSE <<>>

(* ---------------------------- query engine ---------------------------- *)
\* intent_patterns: the keywords of each intent
IntentKeywords(intent) ==
    CASE intent = "product_inquiry" ->
           {"product", "service", "buy", "purchase", "price", "cost", "features",
            "specs", "specifications", "compare", "review", "demo"}
      [] intent = "support" ->
           {"help", "support", "problem", "issue", "error", "trouble", "fix",
            "how to", "tutorial", "guide", "faq", "documentation"}
      [] intent = "navigation" ->
           {"find", "where", "locate", "navigate", "search", "looking for",
            "page", "section", "menu", "link"}
      [] intent = "contact" ->
           {"contact", "phone", "email", "address", "location", "office",
            "support", "sales", "team", "representative"}
      [] intent = "information" ->
           {"about", "company", "history", "team", "mission", "vision",
            "values", "news", "blog", "resources"}
      [] OTHER ->
           {"sign up", "register", "subscribe", "download", "free trial",
            "get started", "book", "schedule", "appointment", "quote"}

\* A query string is given by what the engine reads of it: occurs, the
\* keywords (of any list of the engine) that are substrings of
\* query.lower(), and words, query.lower().split().
Query(occurs, words) == [occurs |-> occurs, words |-> words]

\* "What are your prices?"
QPrices == Query({"price"}, <<"what", "are", "your", "prices?">>)
\* ""
QEmpty == Query({}, <<>>)
\* "compare product price cost features demo"
QCompare ==
    Query({"compare", "product", "price", "cost", "features", "demo"},
          <<"compare", "product", "price", "cost", "features", "demo">>)
\* "help support team"
QHelp == Query({"help", "support", "team"}, <<"help", "support", "team">>)
\* "sign up"
QSignUp == Query({"sign up"}, <<"sign", "up">>)
\* "about your team prices"
QAbout == Query({"about", "team", "price"}, <<"about", "your", "team", "prices">>)

Queries == {QPrices, QEmpty, QCompare, QHelp, QSignUp, QAbout}

\* sum(1 for keyword in keywords if keyword in query_lower)
IntentScore(query, intent) == Cardinality(query.occurs \cap IntentKeywords(intent))

\* mutant: of the intents of the greatest score the last one is taken
PrimaryIntent_LastMax(query) ==
    LET scored == SelectSeq(Intents, LAMBDA i : IntentScore(query, i) > 0)
        best(i) == \A k \in 1..Len(scored) :
                       IntentScore(query, scored[k]) <= IntentScore(query, i)
    IN IF scored = <<>> THEN "information"
       ELSE SelectSeq(scored, best)[Len(SelectSeq(scored, best))]

\* max(intent_scores, key=intent_scores.get): the first intent, in the order
\* of intent_patterns, whose score is the greatest; 'information' when no
\* keyword occurs.
PrimaryIntent(query) ==
    LET scored == SelectSeq(Intents, LAMBDA i : IntentScore(query, i) > 0)
        best(i) == \A k \in 1..Len(scored) :
                       IntentScore(query, scored[k]) <= IntentScore(query, i)
    IN IF scored = <<>> THEN "information"
       ELSE SelectSeq(scored, best)[1]

\* Probabilities and confidences are kept in thousandths: One is 1.0.
One == 1000

\* mutant: the confidence is not capped at 1.0
Confidence_NoCap(query) ==
    IF \A i \in 1..Len(Intents) : IntentScore(query, Intents[i]) = 0
    THEN 500
    ELSE IntentScore(query, PrimaryIntent(query)) * 200

\* 0.5 when no keyword occurs, else min(1.0, score / 5.0)
Confidence(query) ==
    IF \A i \in 1..Len(Intents) : IntentScore(query, Intents[i]) = 0
    THEN 500
    ELSE Min(One, IntentScore(query, PrimaryIntent(query)) * 200)

\* mutant: every URL of the intent is suggested
SuggestedPages_All(intent, site_structure) ==
    IF intent \in DOMAIN site_structure.intent_mapping
    THEN site_structure.intent_mapping[intent]
    ELSE <<>>

\* site_structure.intent_mapping[primary_intent][:3] when the intent is a key
SuggestedPages(intent, site_structure) ==
    IF intent \in DOMAIN site_structure.intent_mapping
    THEN Take(site_structure.intent_mapping[intent], 3)
    ELSE <<>>

\* base_probabilities.get(intent, 0.3)
BaseProbability(intent) ==
    CASE intent = "product_inquiry" -> 700
      [] intent = "conversion" -> 900
      [] intent = "contact" -> 800
      [] intent = "support" -> 300
      [] intent = "navigation" -> 400
      [] intent = "information" -> 200
      [] OTHER -> 300

\* site_structure.site_map[url]
PageOf(site_map, url) ==
    CHOOSE p \in { site_map[i] : i \in 1..Len(site_map) } : p.url = url

\* the probability after the adjustments for the current page
AdjustedProbability(intent, current_page, site_structure) ==
    LET base == BaseProbability(intent) IN
    IF current_page \in Keys(site_structure.site_map)
    THEN LET page_data == PageOf(site_structure.site_map, current_page)
             staged == IF page_data.user_journey_stage = "decision"
                       THEN (base * 15) \div 10
                       ELSE IF page_data.user_journey_stage = "consideration"
                       THEN (base * 12) \div 10
                       ELSE base
         IN IF page_data.conversion_elements > 0
            THEN (staged * 13) \div 10
            ELSE staged
    ELSE base

\* mutant: the result is not capped at 1.0
calculate_conversion_probability_NoCap(intent, current_page, site_structure) ==
    AdjustedProbability(intent, current_page, site_structure)

calculate_conversion_probability(intent, current_page, site_structure) ==
    Min(One, AdjustedProbability(intent, current_page, site_structure))

\* generate_recommended_actions: the four actions of the intent's branch,
\* written <<branch, k>>
generate_recommended_actions(intent) ==
    LET branch == IF intent \in {"product_inquiry", "support", "navigation",
                                 "contact", "conversion"}
                  THEN intent ELSE "other"
    IN [k \in 1..4 |-> <<branch, k>>]

determine_intent_journey_stage(intent, query) ==
    IF \/ intent \in {"conversion", "contact"}
       \/ query.occurs \cap {"buy", "purchase", "price", "cost", "demo",
                             "trial", "contact", "quote"} # {}
    THEN "decision"
    ELSE IF \/ intent = "product_inquiry"
            \/ query.occurs \cap {"compare", "features", "benefits", "vs",
                                  "difference", "options"} # {}
    THEN "consideration"
    ELSE "awareness"

analyze_user_intent(query, current_page, site_structure) ==
    LET primary_intent == PrimaryIntent(query)
    IN [intent_type |-> primary_intent,
        confidence |-> Confidence(query),
        suggested_pages |-> SuggestedPages(primary_intent, site_structure),
        conversion_probability |->
            calculate_conversion_probability(primary_intent, current_page,
                                             site_structure),
        recommended_actions |-> generate_recommended_actions(primary_intent),
        journey_stage |-> determine_intent_journey_stage(primary_intent, query)]

\* the number of query words for which a test holds (a word counts once
\* for every time it is written in the query)
RelevanceScore(query, page_data) ==
    LET title_matches ==
            Len(SelectSeq(query.words, LAMBDA w : InSeq(w, page_data.title)))
        content_matches ==
            Len(SelectSeq(query.words, LAMBDA w : w \in page_data.content_words))
        keyword_matches ==
            Len(SelectSeq(query.words, LAMBDA w : InSeq(w, page_data.keywords)))
    IN title_matches * 3 + content_matches + keyword_matches * 2

Suggestion(query, page_data) ==
    [url |-> page_data.url,
     title |-> page_data.title,
     description |-> page_data.description,
     relevance_score |-> RelevanceScore(query, page_data),
     page_type |-> page_data.page_type,
     journey_stage |-> page_data.user_journey_stage]

\* mutant: x is put at the end, so the list is left in site_map order
InsertByScore_Append(sorted, x) == Append(sorted, x)

\* list.sort(key=relevance_score, reverse=True): the sort is stable, so
\* entries of equal score keep the order they had.  x is put behind the
\* entries of sorted whose score is at least its own.
InsertByScore(sorted, x) ==
    LET ahead == Cardinality({ i \in 1..Len(sorted) :
                                 sorted[i].relevance_score >= x.relevance_score })
    IN SubSeq(sorted, 1, ahead) \o <<x>> \o SubSeq(sorted, ahead + 1, Len(sorted))

RECURSIVE SortByScore(_)
SortByScore(suggestions) ==
    IF suggestions = <<>> THEN <<>>
    ELSE InsertByScore(SortByScore(SubSeq(suggestions, 1, Len(suggestions) - 1)),
                       suggestions[Len(suggestions)])

\* the pages of positive score, in the order of site_map
Relevant(query, site_map) ==
    LET all == [i \in 1..Len(site_map) |-> Suggestion(query, site_map[i])]
    IN SelectSeq(all, LAMBDA x : x.relevance_score > 0)

\* mutant: every relevant page is returned
get_navigation_suggestions_All(query, current_page, site_structure) ==
    SortByScore(Relevant(query, site_structure.site_map))

get_navigation_suggestions(query, current_page, site_structure) ==
    Take(SortByScore(Relevant(query, site_structure.site_map)), 5)

(* ------------------------------ the crawl ------------------------------ *)
VARIABLES
    web,            \* the site being crawled: request path -> hrefs of the page
    max_pages,      \* argument of crawl_website
    max_depth,      \* argument of crawl_website
    pc,             \* position of the crawl_website coroutine
    crawled_urls,   \* Set[str]
    to_crawl,       \* List[Tuple[str, int]], the frontier
    site_map,       \* Dict[str, PageData]
    cur,            \* <<url, depth>> of the page being awaited, else <<>>
    fetch_log,      \* history: one entry per GET issued, with its outcome
    result,         \* the SiteStructures returned so far, in order
    clock,          \* datetime.utcnow()
    db,             \* the site_intelligence collection: site_id -> document
    lookup,         \* <<answer>> of the last get_site_intelligence call
    answer          \* <<UserIntent, suggestions>> of the last query

vars == <<web, max_pages, max_depth, pc, crawled_urls, to_crawl, site_map,
          cur, fetch_log, result, clock, db, lookup, answer>>

\* what the crawl loop leaves alone
inputVars == <<web, max_pages, max_depth>>
storeVars == <<db, lookup, answer>>

\* Idle -> Running -> Completed; a crawl ended by CancelledError is Cancelled.
status ==
    CASE pc = "idle" -> "Idle"
      [] pc \in {"loop", "fetch"} -> "Running"
      [] pc = "done" -> "Completed"
      [] OTHER -> "Cancelled"

\* mutants of the loop condition: an off-by-one cap, and no cap at all
LoopCondition_OffByOne(queue, crawled, cap) ==
    queue # <<>> /\ Cardinality(crawled) <= cap

LoopCondition_NoCap(queue, crawled, cap) ==
    queue # <<>>

\* while to_crawl and len(crawled_urls) < max_pages
LoopCondition(queue, crawled, cap) ==
    queue # <<>> /\ Cardinality(crawled) < cap

\* mutant: to_crawl[0] is read but not removed
PopFirst_Peek(queue) == queue

\* to_crawl.pop(0): the list that is left
PopFirst(queue) == Tail(queue)

\* if url in crawled_urls or depth > max_depth: continue
ShouldSkip(url, depth, crawled, maxd) ==
    url \in crawled \/ depth > maxd

\* mutant: links of a page at max_depth are enqueued too
MayEnqueue_Inclusive(depth, maxd) == depth <= maxd

\* if depth < max_depth
MayEnqueue(depth, maxd) == depth < maxd

\* for link in page_data.internal_links:
\*     if link not in crawled_urls: to_crawl.append((link, depth + 1))
NewEntries(links, depth, crawled) ==
    LET keep == SelectSeq(links, LAMBDA l : l \notin crawled)
    IN [i \in 1..Len(keep) |-> <<keep[i], depth + 1>>]

\* mutant: the new entries are put at the front of the list
Extend_Front(queue, entries) == entries \o queue

\* to_crawl.append(..) for each new entry, in order: they go to the end
Extend(queue, entries) == queue \o entries

Failures == Cardinality({ i \in 1..Len(fetch_log) : fetch_log[i].outcome = "fail" })

SetOutcome(log, o) == [log EXCEPT ![Len(log)].outcome = o]

Init ==
    /\ web \in Sites
    /\ max_pages \in 0..MaxPagesBound
    /\ max_depth \in 0..MaxDepthBound
    /\ pc = "idle"
    /\ crawled_urls = {}
    /\ to_crawl = <<>>
    /\ site_map = <<>>
    /\ cur = <<>>
    /\ fetch_log = <<>>
    /\ result = <<>>
    /\ clock = 0
    /\ db = <<>>
    /\ lookup = <<>>
    /\ answer = <<>>

\* crawl_website is called: the locals are initialised.
StartCrawl ==
    /\ pc = "idle"
    /\ pc' = "loop"
    /\ crawled_urls' = {}
    /\ to_crawl' = << <<SeedUrl(Domain), 0>> >>
    /\ site_map' = <<>>
    /\ UNCHANGED <<inputVars, storeVars, cur, fetch_log, result, clock>>

\* One iteration that pops an entry and skips it.
PopSkip ==
    /\ pc = "loop"
    /\ LoopCondition(to_crawl, crawled_urls, max_pages)
    /\ ShouldSkip(Head(to_crawl)[1], Head(to_crawl)[2], crawled_urls, max_depth)
    /\ to_crawl' = PopFirst(to_crawl)
    /\ UNCHANGED <<inputVars, storeVars, pc, crawled_urls, site_map, cur,
                   fetch_log, result, clock>>

\* One iteration that pops an entry and issues the GET of analyze_page; the
\* coroutine is suspended until the response or the failure arrives.
PopFetch ==
    /\ pc = "loop"
    /\ LoopCondition(to_crawl, crawled_urls, max_pages)
    /\ ~ShouldSkip(Head(to_crawl)[1], Head(to_crawl)[2], crawled_urls, max_depth)
    /\ to_crawl' = PopFirst(to_crawl)
    /\ cur' = Head(to_crawl)
    /\ fetch_log' = Append(fetch_log, [url |-> Head(to_crawl)[1],
                                       depth |-> Head(to_crawl)[2],
                                       outcome |-> "pending"])
    /\ pc' = "fetch"
    /\ UNCHANGED <<inputVars, storeVars, crawled_urls, site_map, result, clock>>

\* The GET answers 200 and the page is analysed.
FetchOk ==
    /\ pc = "fetch"
    /\ LET url == cur[1]
           depth == cur[2]
           page_data == analyze_page(url, web, clock)
           crawled == crawled_urls \cup {url}
       IN /\ site_map' = DictSet(site_map, url, page_data)
          /\ crawled_urls' = crawled
          /\ to_crawl' = IF MayEnqueue(depth, max_depth)
                         THEN Extend(to_crawl,
                                     NewEntries(page_data.internal_links,
                                                depth, crawled))
                         ELSE to_crawl
    /\ fetch_log' = SetOutcome(fetch_log, "ok")
    /\ cur' = <<>>
    /\ pc' = "loop"
    /\ clock' = clock + 1
    /\ UNCHANGED <<inputVars, storeVars, result>>

\* The GET answers another status, times out or raises, or the analysis
\* raises: analyze_page returns None and the loop goes on.
FetchFail ==
    /\ pc = "fetch"
    /\ Failures < MaxFailures
    /\ fetch_log' = SetOutcome(fetch_log, "fail")
    /\ cur' = <<>>
    /\ pc' = "loop"
    /\ clock' = clock + 1
    /\ UNCHANGED <<inputVars, storeVars, crawled_urls, to_crawl, site_map,
                   result>>

\* The task is cancelled while the GET is awaited: CancelledError is a
\* BaseException (Python 3.8 and later), so neither "except Exception"
\* handler catches it and it leaves crawl_website; nothing is built or
\* returned.  (Before 3.8 analyze_page catches it and returns None, which
\* is the step FetchFail.)
Cancel ==
    /\ pc = "fetch"
    /\ fetch_log' = SetOutcome(fetch_log, "cancelled")
    /\ pc' = "cancelled"
    /\ UNCHANGED <<inputVars, storeVars, crawled_urls, to_crawl, site_map,
                   cur, result, clock>>

\* The loop condition is false: the site structure is built, stored through
\* the db service and returned.
Finish ==
    /\ pc = "loop"
    /\ ~LoopCondition(to_crawl, crawled_urls, max_pages)
    /\ result' = Append(result, build_site_structure(Domain, site_map, clock))
    /\ db' = store_site_structure(db, StructureData(result'[Len(result')]))
    /\ pc' = "done"
    /\ UNCHANGED <<inputVars, crawled_urls, to_crawl, site_map, cur, fetch_log,
                   clock, lookup, answer>>

\* GET /api/sites/{site_id}/intelligence (and the look-up that opens
\* analyze-intent) after the crawl: the stored intelligence is looked up by
\* the site's id.
GetSiteIntelligence ==
    /\ pc = "done"
    /\ lookup = <<>>
    /\ lookup' = <<get_site_intelligence(db, SiteId)>>
    /\ UNCHANGED <<inputVars, pc, crawled_urls, to_crawl, site_map, cur,
                   fetch_log, result, clock, db, answer>>

Next ==
    \/ StartCrawl
    \/ PopSkip
    \/ PopFetch
    \/ FetchOk
    \/ FetchFail
    \/ Cancel
    \/ Finish
    \/ GetSiteIntelligence

Spec == Init /\ [][Next]_vars

\* The crawl left to run: no cancellation, every step that can be taken is
\* eventually taken (the GET has a 30 s total timeout, so it always ends).
NextRun ==
    \/ StartCrawl
    \/ PopSkip
    \/ PopFetch
    \/ FetchOk
    \/ FetchFail
    \/ Finish
    \/ GetSiteIntelligence

RunSpec == Init /\ [][NextRun]_vars /\ WF_vars(NextRun)

(* ------------------------- builder and queries ------------------------- *)
\* The builder and the query engine applied to PageData collections the
\* crawl does not reach on the three-page site: up to MaxRecords records,
\* the k-th at the k-th URL below, each the analysis of one of the documents.
MaxRecords == 6
MaxTicks == 1

EnginePath(k) ==
    CASE k = 1 -> RootPath
      [] k = 2 -> AboutPath
      [] k = 3 -> <<"", "blog", "post">>
      [] k = 4 -> <<"", "services", "web">>
      [] k = 5 -> <<"", "product", "x">>
      [] k = 6 -> ContactPath
      [] OTHER -> <<"", "docs", "api", ToString(k)>>

EngineUrl(k) == Url(Domain, EnginePath(k), "")

\* a URL of the site that is no key of any site_map
OutsideUrl == Url(Domain, <<"", "missing">>, "")

\* the anchors of the three documents
EngineWeb ==
    [page \in Pages |->
        CASE page = RootPath -> <<hAbout, hContact, hRoot, hExt>>
          [] page = AboutPath -> <<hRoot, hAbout>>
          [] OTHER -> <<>>]

EngineInit ==
    /\ web = EngineWeb
    /\ max_pages = 0
    /\ max_depth = 0
    /\ pc = "collect"
    /\ crawled_urls = {}
    /\ to_crawl = <<>>
    /\ site_map = <<>>
    /\ cur = <<>>
    /\ fetch_log = <<>>
    /\ result = <<>>
    /\ clock = 0
    /\ db = <<>>
    /\ lookup = <<>>
    /\ answer = <<>>

\* analyze_page returned the PageData of one more URL
AddRecord ==
    /\ pc = "collect"
    /\ Len(site_map) < MaxRecords
    /\ \E page \in Pages :
          LET url == EngineUrl(Len(site_map) + 1)
          IN site_map' = DictSet(site_map, url,
                             AnalyzeDocument(url, Document(page), web[page], clock))
    /\ UNCHANGED <<inputVars, storeVars, pc, crawled_urls, to_crawl, cur,
                   fetch_log, result, clock>>

\* build_site_structure(domain, site_map), at most twice on the same site_map
BuildModel ==
    /\ pc \in {"collect", "built"}
    /\ Len(result) < 2
    /\ result' = Append(result, build_site_structure(Domain, site_map, clock))
    /\ pc' = "built"
    /\ UNCHANGED <<inputVars, storeVars, crawled_urls, to_crawl, site_map, cur,
                   fetch_log, clock>>

\* time passes between two invocations of the builder
Tick ==
    /\ pc = "built"
    /\ Len(result) = 1
    /\ clock < MaxTicks
    /\ clock' = clock + 1
    /\ UNCHANGED <<inputVars, storeVars, pc, crawled_urls, to_crawl, site_map,
                   cur, fetch_log, result>>

\* mutant: the suggested pages are taken out of the model's intent_mapping
\* (del intent_mapping[primary_intent][:3]) instead of being copied
Ask_Consuming ==
    /\ pc \in {"built", "asked"}
    /\ Len(result) = 1
    /\ clock = 0
    /\ \E query \in Queries :
       \E current_page \in {EngineUrl(Len(site_map)), OutsideUrl} :
          LET intent == PrimaryIntent(query)
              mapping == result[1].intent_mapping
          IN /\ answer' = <<query,
                            current_page,
                            analyze_user_intent(query, current_page, result[1]),
                            get_navigation_suggestions(query, current_page,
                                                       result[1])>>
             /\ result' = IF intent \in DOMAIN mapping
                          THEN <<[result[1] EXCEPT !.intent_mapping[intent] =
                                     SubSeq(@, 4, Len(@))]>>
                          ELSE result
    /\ pc' = "asked"
    /\ UNCHANGED <<inputVars, db, lookup, crawled_urls, to_crawl, site_map, cur,
                   fetch_log, clock>>

\* analyze_user_intent and get_navigation_suggestions for one query, asked
\* from the last page of the model or from a URL outside it; any number of
\* queries is answered from the same model
Ask ==
    /\ pc \in {"built", "asked"}
    /\ Len(result) = 1
    /\ clock = 0
    /\ \E query \in Queries :
       \E current_page \in {EngineUrl(Len(site_map)), OutsideUrl} :
          answer' = <<query,
                      current_page,
                      analyze_user_intent(query, current_page, result[1]),
                      get_navigation_suggestions(query, current_page, result[1])>>
    /\ pc' = "asked"
    /\ UNCHANGED <<inputVars, db, lookup, crawled_urls, to_crawl, site_map, cur,
                   fetch_log, result, clock>>

EngineNext ==
    \/ AddRecord
    \/ BuildModel
    \/ Tick
    \/ Ask

EngineSpec == EngineInit /\ [][EngineNext]_vars

(* ------------------------------ recrawls ------------------------------- *)
\* The same domain crawled up to MaxCrawls times, the site changing between
\* the crawls, with the intelligence of another domain already stored.
MaxCrawls == 2

RecrawlSites ==
    { w \in Sites :
        /\ w[RootPath] \in { <<>>, <<hAbout, hContact>>, <<hAbout, hAbout>> }
        /\ w[AboutPath] = <<>>
        /\ w[ContactPath] = <<>> }

OtherDomain == "e"

\* the collection after a crawl of the other domain stored its one page
OtherStored ==
    LET url == Url(OtherDomain, EmptyPath, "")
        page_data == AnalyzeDocument(url, HomeDoc, <<>>, 0)
    IN store_site_structure(<<>>,
           StructureData(build_site_structure(OtherDomain, <<page_data>>, 0)))

RecrawlInit ==
    /\ web \in RecrawlSites
    /\ max_pages = MaxPagesBound
    /\ max_depth = 1
    /\ pc = "idle"
    /\ crawled_urls = {}
    /\ to_crawl = <<>>
    /\ site_map = <<>>
    /\ cur = <<>>
    /\ fetch_log = <<>>
    /\ result = <<>>
    /\ clock = 0
    /\ db = OtherStored
    /\ lookup = <<>>
    /\ answer = <<>>

\* POST /api/sites/{site_id}/crawl once more, after the previous crawl
\* returned; the site may have changed in the meantime
Recrawl ==
    /\ pc = "done"
    /\ Len(result) < MaxCrawls
    /\ web' \in RecrawlSites
    /\ pc' = "idle"
    /\ crawled_urls' = {}
    /\ to_crawl' = <<>>
    /\ site_map' = <<>>
    /\ fetch_log' = <<>>
    /\ UNCHANGED <<max_pages, max_depth, storeVars, cur, result, clock>>

RecrawlNext ==
    \/ StartCrawl
    \/ PopSkip
    \/ PopFetch
    \/ FetchOk
    \/ FetchFail
    \/ Finish
    \/ Recrawl

RecrawlSpec == RecrawlInit /\ [][RecrawlNext]_vars

(* ------------------------------- claims -------------------------------- *)
OkEntries == { i \in 1..Len(fetch_log) : fetch_log[i].outcome = "ok" }
FailEntries == { i \in 1..Len(fetch_log) : fetch_log[i].outcome = "fail" }

\* Two URLs that name the same page of the same host: spellings that differ
\* only in the fragment or in an empty path against "/".
SamePage(u, v) == u.netloc = v.netloc /\ RequestPath(u) = RequestPath(v)

\* C1: in every state of a crawl, and in the model it returns, the number of
\* PageRecords is at most max_pages.
C1_PageCap ==
    /\ Len(site_map) <= max_pages
    /\ Cardinality(crawled_urls) <= max_pages
    /\ result # <<>> => /\ Len(result[1].site_map) <= max_pages
                        /\ result[1].total_pages <= max_pages

\* a crawl that ended because the cap was reached, with entries still queued
C1_Witness ==
    /\ pc = "done"
    /\ max_pages >= 2
    /\ Len(result[1].site_map) = max_pages
    /\ to_crawl # <<>>

\* C2: every frontier entry has a depth in 0..max_depth, the seed has depth
\* 0, and every PageRecord comes from a fetch at a depth <= max_depth.
C2_DepthBound ==
    /\ \A i \in 1..Len(to_crawl) : to_crawl[i][2] \in 0..max_depth
    /\ Len(fetch_log) >= 1 => fetch_log[1].depth = 0
    /\ \A i \in 1..Len(fetch_log) : fetch_log[i].depth \in 0..max_depth
    /\ \A k \in 1..Len(site_map) :
          \E i \in OkEntries : /\ fetch_log[i].url = site_map[k].url
                               /\ fetch_log[i].depth <= max_depth

\* a page with internal links was recorded at depth max_depth >= 1
C2_Witness ==
    /\ max_depth >= 1
    /\ \E i \in OkEntries :
          /\ fetch_log[i].depth = max_depth
          /\ \E k \in 1..Len(site_map) :
                /\ site_map[k].url = fetch_log[i].url
                /\ site_map[k].internal_links # <<>>

\* C3: no URL is fetched more than once within a crawl, a URL whose fetch
\* failed included.
C3_FetchedOnce ==
    \A i, j \in 1..Len(fetch_log) :
        i # j => fetch_log[i].url # fetch_log[j].url

\* C4: the frontier never contains the same URL twice.
C4_FrontierDistinct ==
    \A i, j \in 1..Len(to_crawl) :
        i # j => to_crawl[i][1] # to_crawl[j][1]

\* C5: a started crawl that is left to run eventually reaches Completed and
\* returns the SiteModel built from the PageRecords gathered so far.
C5_Terminates ==
    (status = "Running") ~>
        (status = "Completed" /\ result = <<build_site_structure(Domain, site_map, clock)>>)

\* a crawl over a link cycle, with a failed fetch, that completed
C5_Witness ==
    /\ pc = "done"
    /\ FailEntries # {}
    /\ \E k \in 1..Len(site_map) :
          \E i \in 1..Len(site_map[k].internal_links) :
              site_map[k].internal_links[i] \in crawled_urls

\* C6: a URL whose fetch failed never appears in the returned PageRecord
\* set, and the failure leaves the PageRecords and the frontier as they were
\* while the crawl goes on.
C6_FailedUrlAbsent ==
    /\ pc = "done" =>
          \A i \in FailEntries : fetch_log[i].url \notin Keys(result[1].site_map)
    /\ (pc = "loop" /\ cur = <<>> /\ FailEntries # {}
            /\ fetch_log[Len(fetch_log)].outcome = "fail") =>
          fetch_log[Len(fetch_log)].url \notin Keys(site_map)

\* C7: a crawl whose root fetch failed ends Completed with an empty model:
\* totalPages 0, no entries in any aggregate, four empty journey flows and
\* every roiMetrics value 0.
RootFetchFailed ==
    /\ Len(fetch_log) >= 1
    /\ fetch_log[1].outcome = "fail"

EmptyModel(m) ==
    /\ m.total_pages = 0
    /\ m.site_map = <<>>
    /\ DOMAIN m.page_hierarchy = {}
    /\ DOMAIN m.navigation_paths = {}
    /\ DOMAIN m.content_categories = {}
    /\ DOMAIN m.intent_mapping = {}
    /\ m.conversion_funnels = <<>>
    /\ DOMAIN m.user_journey_flows = FlowNames
    /\ \A f \in FlowNames : m.user_journey_flows[f] = <<>>
    /\ \A k \in DOMAIN m.roi_metrics : m.roi_metrics[k] = 0

C7_RootFailure ==
    RootFetchFailed ~> (pc = "done" /\ result # <<>> /\ EmptyModel(result[1]))

C7_Witness ==
    /\ RootFetchFailed
    /\ pc = "done"
    /\ EmptyModel(result[1])

\* C8: a crawl cancelled while a fetch is suspended returns the partial
\* SiteModel built from the PageRecords produced so far.
C8_CancelReturnsPartial ==
    pc = "cancelled" => result = <<build_site_structure(Domain, site_map, clock)>>

\* C9: once max_pages PageRecords exist, no further GET is issued.
C9_CapExact ==
    [][Len(site_map) >= max_pages => Len(fetch_log') = Len(fetch_log)]_vars

\* the crawl ended with max_pages records while a URL not yet crawled was
\* still queued
C9_Witness ==
    /\ pc = "done"
    /\ max_pages >= 1
    /\ Len(site_map) = max_pages
    /\ \E i \in 1..Len(to_crawl) : to_crawl[i][1] \notin crawled_urls

\* C10: no two PageRecords of a crawl have the same URL, and two spellings
\* of the same page yield one PageRecord.
C10_OneRecordPerPage ==
    \A i, j \in 1..Len(site_map) :
        i # j => /\ site_map[i].url # site_map[j].url
                 /\ ~SamePage(site_map[i].url, site_map[j].url)

\* C17: the crawl of the three-page site whose home page links to /about and
\* /contact, all fetches succeeding (max_pages at least 3, max_depth 2),
\* returns total_pages = 3 and a page_hierarchy with one parent under which
\* both the /about and the /contact URL are listed.
ScenarioA ==
    /\ web[RootPath] = <<hAbout, hContact>>
    /\ web[AboutPath] = <<>>
    /\ web[ContactPath] = <<>>
    /\ max_pages >= 3
    /\ max_depth = 2
    /\ FailEntries = {}
    /\ pc = "done"

C17_ScenarioA ==
    ScenarioA =>
        /\ result[1].total_pages = 3
        /\ \E par \in DOMAIN result[1].page_hierarchy :
              /\ InSeq(Url(Domain, AboutPath, ""), result[1].page_hierarchy[par])
              /\ InSeq(Url(Domain, ContactPath, ""), result[1].page_hierarchy[par])

\* C18: the SEO score of every PageRecord holds the 10 points of the
\* internal-link bonus exactly when the record has at least 3 internal
\* links: it is the points of the other rules, plus 10 in that case, capped
\* at 100.
C18_SeoLinkBonus ==
    \A k \in 1..Len(site_map) :
        LET p == site_map[k]
            base == SeoBasePoints(Document(RequestPath(p.url)))
            bonus == IF Len(p.internal_links) >= 3 THEN 10 ELSE 0
        IN p.seo_score = Min(100, base + bonus)

\* C20: a look-up of the site's intelligence by the site's id, made after
\* the crawl completed and stored its SiteStructure, finds the stored data.
C20_StoreThenRetrieve ==
    lookup # <<>> =>
        /\ lookup[1] # <<>>
        /\ LET stored == StructureData(result[Len(result)])
           IN \A f \in DOMAIN stored : lookup[1][1][f] = stored[f]

\* the elements of a list, and the URLs listed in the values of a dict
Range(seq) == { seq[i] : i \in 1..Len(seq) }
ListedUrls(dict) == UNION { Range(dict[k]) : k \in DOMAIN dict }

\* the pages of site_map in a journey stage
StagePages(pages, stage) ==
    { i \in 1..Len(pages) : pages[i].user_journey_stage = stage }

\* C11: every URL a built SiteStructure refers to (keys and values of
\* navigation_paths, values of page_hierarchy, content_categories,
\* intent_mapping and user_journey_flows, elements of the funnels) is a key
\* of its site_map; navigation_paths keeps of a page's internal links
\* exactly those that are keys of site_map.
NoDanglingUrl(m) ==
    LET keys == Keys(m.site_map) IN
    /\ DOMAIN m.navigation_paths \subseteq keys
    /\ ListedUrls(m.navigation_paths) \subseteq keys
    /\ ListedUrls(m.page_hierarchy) \subseteq keys
    /\ ListedUrls(m.content_categories) \subseteq keys
    /\ ListedUrls(m.intent_mapping) \subseteq keys
    /\ ListedUrls(m.user_journey_flows) \subseteq keys
    /\ \A k \in 1..Len(m.conversion_funnels) :
          Range(m.conversion_funnels[k]) \subseteq keys
    /\ \A i \in 1..Len(m.site_map) :
          Range(m.navigation_paths[m.site_map[i].url])
              = Range(m.site_map[i].internal_links) \cap keys

C11_NoDanglingUrl ==
    \A n \in 1..Len(result) : NoDanglingUrl(result[n])

\* a built model with a nested page, a funnel, and a page one of whose
\* internal links is kept while another, to a page without record, is dropped
C11_Witness ==
    /\ Len(result) >= 1
    /\ DOMAIN result[1].page_hierarchy # {}
    /\ result[1].conversion_funnels # <<>>
    /\ \E i \in 1..Len(site_map) :
          /\ result[1].navigation_paths[site_map[i].url] # <<>>
          /\ Range(site_map[i].internal_links) \ Keys(site_map) # {}

\* C12: conversion_funnels has at most 5 entries, each of them three URLs
\* whose pages are in the stages awareness, consideration, decision in that
\* order, and it is empty when one of the three stages has no page.
FunnelsWellFormed(m) ==
    /\ Len(m.conversion_funnels) <= 5
    /\ \A k \in 1..Len(m.conversion_funnels) :
          LET funnel == m.conversion_funnels[k] IN
          /\ Len(funnel) = 3
          /\ Range(funnel) \subseteq Keys(m.site_map)
          /\ PageOf(m.site_map, funnel[1]).user_journey_stage = "awareness"
          /\ PageOf(m.site_map, funnel[2]).user_journey_stage = "consideration"
          /\ PageOf(m.site_map, funnel[3]).user_journey_stage = "decision"
    /\ (\E stage \in {"awareness", "consideration", "decision"} :
           StagePages(m.site_map, stage) = {})
          => m.conversion_funnels = <<>>

C12_FunnelsCapped ==
    \A n \in 1..Len(result) : FunnelsWellFormed(result[n])

\* six funnels can be formed (3 awareness x 2 consideration x 1 decision)
\* and five are listed
C12_Witness ==
    /\ Len(result) >= 1
    /\ Cardinality(StagePages(site_map, "awareness")) >= 3
    /\ Cardinality(StagePages(site_map, "consideration")) >= 2
    /\ Cardinality(StagePages(site_map, "decision")) >= 1
    /\ Len(result[1].conversion_funnels) = 5

\* the parts of the answer to the last query
AskedQuery == answer[1]
AskedFrom == answer[2]
AskedIntent == answer[3]
AskedSuggestions == answer[4]

\* C13 as stated: at most 5 suggestions, none of relevance_score 0, and the
\* scores strictly descending along the list.
C13_StrictlyDescending ==
    answer # <<>> =>
        /\ Len(AskedSuggestions) <= 5
        /\ \A i \in 1..Len(AskedSuggestions) : AskedSuggestions[i].relevance_score > 0
        /\ \A i, j \in 1..Len(AskedSuggestions) :
              i < j => AskedSuggestions[i].relevance_score
                           > AskedSuggestions[j].relevance_score

\* the position of a URL in site_map
PositionOf(pages, url) == CHOOSE i \in 1..Len(pages) : pages[i].url = url

\* C13, amended: at most 5 suggestions, none of relevance_score 0, the
\* scores never increasing along the list, and suggestions of equal score in
\* the order of their pages in site_map.
C13_NonIncreasing ==
    answer # <<>> =>
        /\ Len(AskedSuggestions) <= 5
        /\ \A i \in 1..Len(AskedSuggestions) : AskedSuggestions[i].relevance_score > 0
        /\ \A i, j \in 1..Len(AskedSuggestions) :
              i < j =>
                 \/ AskedSuggestions[i].relevance_score
                        > AskedSuggestions[j].relevance_score
                 \/ /\ AskedSuggestions[i].relevance_score
                           = AskedSuggestions[j].relevance_score
                    /\ PositionOf(site_map, AskedSuggestions[i].url)
                           < PositionOf(site_map, AskedSuggestions[j].url)

\* six pages are relevant to the query, five are returned, two of them
\* with the same score and two with different scores
C13_Witness ==
    /\ answer # <<>>
    /\ Len(Relevant(AskedQuery, site_map)) >= 6
    /\ Len(AskedSuggestions) = 5
    /\ AskedSuggestions[1].relevance_score > AskedSuggestions[5].relevance_score
    /\ \E i \in 1..4 : AskedSuggestions[i].relevance_score
                           = AskedSuggestions[i + 1].relevance_score

\* C14: the confidence and the conversion probability of every answer of
\* analyze_user_intent lie between 0 and 1, whatever the query and the
\* current URL; the multipliers never carry the probability above 1.
C14_UnitInterval ==
    answer # <<>> =>
        /\ 0 <= AskedIntent.confidence
        /\ AskedIntent.confidence <= One
        /\ 0 <= AskedIntent.conversion_probability
        /\ AskedIntent.conversion_probability <= One

\* asked from a decision-stage page with conversion elements: the product
\* of the multipliers is above 1 and the answer is 1; the confidence of the
\* query was cut to 1 as well
C14_Witness ==
    /\ answer # <<>>
    /\ AskedFrom \in Keys(site_map)
    /\ PageOf(site_map, AskedFrom).user_journey_stage = "decision"
    /\ AdjustedProbability(AskedIntent.intent_type, AskedFrom, result[1]) > One
    /\ AskedIntent.conversion_probability = One
    /\ IntentScore(AskedQuery, AskedIntent.intent_type) > 5
    /\ AskedIntent.confidence = One

\* C15 as stated: the five scores of roi_metrics lie in [0,100], the counts
\* are non-negative integers, and every other output lies in [0,100] too.
RoiScoresInRange(roi) ==
    /\ \A f \in {"avg_seo_score", "avg_accessibility_score",
                 "content_optimization_score", "navigation_efficiency",
                 "user_experience_score"} : roi[f] \in 0..100
    /\ \A f \in {"total_pages_analyzed", "total_conversion_elements",
                 "lead_generation_potential", "intent_coverage_score"} :
          roi[f] \in Nat

PageScoresInRange(pages) ==
    \A i \in 1..Len(pages) : /\ pages[i].seo_score \in 0..100
                             /\ pages[i].accessibility_score \in 0..100

C15_AllInRange ==
    \A n \in 1..Len(result) :
        PageScoresInRange(result[n].site_map) =>
            /\ RoiScoresInRange(result[n].roi_metrics)
            /\ result[n].roi_metrics.avg_content_length \in 0..100
            /\ result[n].roi_metrics.avg_reading_level \in 0..100

\* C15, amended: the five scores lie in [0,100] and the counts are
\* non-negative integers; avg_content_length and avg_reading_level are
\* averages of the pages' word counts and reading levels and only
\* non-negative here.
C15_ScoresInRange ==
    \A n \in 1..Len(result) :
        PageScoresInRange(result[n].site_map) =>
            /\ RoiScoresInRange(result[n].roi_metrics)
            /\ result[n].roi_metrics.avg_content_length >= 0
            /\ result[n].roi_metrics.avg_reading_level >= 0

\* a model of several pages whose scores differ and whose average content
\* length is above 100
C15_Witness ==
    /\ Len(result) >= 1
    /\ Len(site_map) >= 3
    /\ PageScoresInRange(site_map)
    /\ \E i, j \in 1..Len(site_map) : site_map[i].seo_score # site_map[j].seo_score
    /\ result[1].roi_metrics.avg_content_length > 100
    /\ result[1].roi_metrics.user_experience_score > 0

\* C16: two invocations of build_site_structure on the same site_map and
\* domain return SiteStructures equal in every field, whenever they are made.
C16_Deterministic ==
    Len(result) = 2 => result[1] = result[2]

\* C19: suggested_pages is the first min(3, n) URLs of
\* intent_mapping[intent_type] in their order, and empty when the intent is
\* no key; so at most 3 URLs, each a page of the model classified with the
\* intent, and for "What are your prices?" on a model with one
\* product_inquiry page, that page.
C19_SuggestedPages ==
    answer # <<>> =>
        LET intent == AskedIntent.intent_type
            pages == AskedIntent.suggested_pages
            mapping == result[1].intent_mapping
        IN /\ IF intent \in DOMAIN mapping
              THEN pages = SubSeq(mapping[intent], 1, Min(3, Len(mapping[intent])))
              ELSE pages = <<>>
           /\ Len(pages) <= 3
           /\ \A k \in 1..Len(pages) :
                 /\ pages[k] \in Keys(site_map)
                 /\ InSeq(intent, PageOf(site_map, pages[k]).intent_categories)
           /\ \A i \in 1..Len(site_map) :
                 (/\ AskedQuery = QPrices
                  /\ { j \in 1..Len(site_map) :
                         InSeq("product_inquiry", site_map[j].intent_categories) } = {i})
                     => intent = "product_inquiry" /\ pages = <<site_map[i].url>>

\* four or more pages carry the intent of the query and three are suggested
C19_Witness ==
    /\ answer # <<>>
    /\ AskedIntent.intent_type \in DOMAIN result[1].intent_mapping
    /\ Len(result[1].intent_mapping[AskedIntent.intent_type]) >= 4
    /\ Len(AskedIntent.suggested_pages) = 3

\* C23: the frontier is first-in first-out and the crawl breadth-first: the
\* depths along the frontier never decrease, so successive pops have
\* non-decreasing depths (the GETs issued likewise), and while a page is
\* being fetched no entry of a smaller depth is in the frontier.
C23_BreadthFirst ==
    /\ \A i, j \in 1..Len(to_crawl) : i < j => to_crawl[i][2] <= to_crawl[j][2]
    /\ \A i, j \in 1..Len(fetch_log) : i < j => fetch_log[i].depth <= fetch_log[j].depth
    /\ cur # <<>> => \A i \in 1..Len(to_crawl) : cur[2] <= to_crawl[i][2]

\* a page of depth 1 is being fetched while entries of depth 1 and of
\* depth 2 wait in the frontier
C23_Witness ==
    /\ pc = "fetch"
    /\ cur[2] = 1
    /\ \E i, j \in 1..Len(to_crawl) : to_crawl[i][2] = 1 /\ to_crawl[j][2] = 2

\* C25: the PageRecord of the crawl seed has page_type "homepage", and the
\* returned model lists the seed in the product_discovery journey flow.
C25_SeedIsHomepage ==
    \A k \in 1..Len(site_map) :
        site_map[k].url = SeedUrl(Domain) =>
            /\ site_map[k].page_type = "homepage"
            /\ pc = "done" =>
                  InSeq(SeedUrl(Domain),
                        result[1].user_journey_flows["product_discovery"])

\* C30: the returned SiteStructure has crawl_depth equal to the max_depth
\* the crawl was called with, and total_pages and total_pages_analyzed
\* equal to the number of its PageRecords.
C30_ReportsParameters ==
    pc = "done" =>
        /\ result[1].crawl_depth = max_depth
        /\ result[1].total_pages = Len(result[1].site_map)
        /\ result[1].roi_metrics.total_pages_analyzed = Len(result[1].site_map)

\* the pages the anchors of a page lead to on the same host
LinkedPages(site, page) ==
    LET links == InternalLinks(site[page], Url(Domain, page, ""))
    IN { RequestPath(links[i]) : i \in 1..Len(links) }

\* the pages reachable from the root by following at most n internal links
RECURSIVE ReachablePages(_, _)
ReachablePages(site, n) ==
    IF n = 0 THEN {RootPath}
    ELSE LET near == ReachablePages(site, n - 1)
         IN near \cup UNION { LinkedPages(site, page) : page \in near }

\* C24: when every fetch succeeded and the pages reachable from the root
\* within max_depth links are at most max_pages, the returned PageRecords
\* are those of exactly the reachable pages, one for each.
C24_Complete ==
    (/\ pc = "done"
     /\ FailEntries = {}
     /\ Cardinality(ReachablePages(web, max_depth)) <= max_pages)
        => /\ { RequestPath(u) : u \in Keys(result[1].site_map) }
                  = ReachablePages(web, max_depth)
           /\ Len(result[1].site_map) = Cardinality(ReachablePages(web, max_depth))

\* the rules of the journey flows, each with the rules before it excluded
InDiscovery(p) ==
    p.page_type = "homepage" \/ InSeq("product_inquiry", p.intent_categories)
InSupport(p) == ~InDiscovery(p) /\ InSeq("support", p.intent_categories)
InAwareness(p) ==
    ~InDiscovery(p) /\ ~InSeq("support", p.intent_categories)
        /\ p.user_journey_stage = "awareness"
InDecision(p) ==
    ~InDiscovery(p) /\ ~InSeq("support", p.intent_categories)
        /\ p.user_journey_stage = "decision"

\* the number of times a URL is listed in the buckets of a dict
Listings(dict, url) ==
    Cardinality(UNION { { <<k, i>> : i \in { j \in 1..Len(dict[k]) :
                                                dict[k][j] = url } } :
                        k \in DOMAIN dict })

\* a consideration-stage page, no homepage, without the product_inquiry and
\* the support intent
Unplaced(p) ==
    /\ p.user_journey_stage = "consideration"
    /\ p.page_type # "homepage"
    /\ ~InSeq("product_inquiry", p.intent_categories)
    /\ ~InSeq("support", p.intent_categories)

\* C26: user_journey_flows has exactly the four buckets; every page is in
\* at most one bucket, the one of the first rule it matches in the order
\* homepage or product_inquiry, support, awareness stage, decision stage;
\* a consideration-stage page that is no homepage and has neither intent is
\* in no bucket.
JourneyFlowsWellFormed(m) ==
    LET flows == m.user_journey_flows
        pages == m.site_map
    IN /\ DOMAIN flows = {"product_discovery", "support_flow",
                          "awareness_to_consideration",
                          "consideration_to_decision"}
       /\ \A i \in 1..Len(pages) :
             LET p == pages[i] IN
             /\ Listings(flows, p.url) <= 1
             /\ InSeq(p.url, flows["product_discovery"]) <=> InDiscovery(p)
             /\ InSeq(p.url, flows["support_flow"]) <=> InSupport(p)
             /\ InSeq(p.url, flows["awareness_to_consideration"]) <=> InAwareness(p)
             /\ InSeq(p.url, flows["consideration_to_decision"]) <=> InDecision(p)
             /\ Unplaced(p) => Listings(flows, p.url) = 0

C26_JourneyFlows ==
    \A n \in 1..Len(result) : JourneyFlowsWellFormed(result[n])

\* a model with a homepage that has the support intent, a page in each of
\* the four buckets, and a consideration-stage page in none
C26_Witness ==
    /\ Len(result) >= 1
    /\ \E i \in 1..Len(site_map) :
          /\ site_map[i].page_type = "homepage"
          /\ InSeq("support", site_map[i].intent_categories)
    /\ \A flow \in DOMAIN result[1].user_journey_flows :
          result[1].user_journey_flows[flow] # <<>>
    /\ \E i \in 1..Len(site_map) : Unplaced(site_map[i])

\* the keys of one kind ("type", "intent" or "journey") under which
\* content_categories lists a URL
KeysListing(categories, kind, url) ==
    { key \in DOMAIN categories : key[1] = kind /\ InSeq(url, categories[key]) }

\* no URL is written twice in a list
NoRepeats(urls) == \A i, j \in 1..Len(urls) : i # j => urls[i] # urls[j]

\* C27: in content_categories every URL is under exactly one page-type key
\* and exactly one journey key, those of its PageRecord; a URL is in
\* intent_mapping[i] exactly when i is among the page's intent_categories;
\* intent_mapping[i] is the list under the "intent_<i>" key; and no list
\* holds a URL twice.
CategoriesConsistent(m) ==
    LET categories == m.content_categories
        mapping == m.intent_mapping
        pages == m.site_map
    IN /\ \A i \in 1..Len(pages) :
             LET p == pages[i] IN
             /\ KeysListing(categories, "type", p.url) = { <<"type", p.page_type>> }
             /\ KeysListing(categories, "journey", p.url)
                    = { <<"journey", p.user_journey_stage>> }
             /\ \A k \in 1..Len(Intents) :
                   (/\ Intents[k] \in DOMAIN mapping
                    /\ InSeq(p.url, mapping[Intents[k]]))
                       <=> InSeq(Intents[k], p.intent_categories)
       /\ { key[2] : key \in { c \in DOMAIN categories : c[1] = "intent" } }
              = DOMAIN mapping
       /\ \A intent \in DOMAIN mapping :
             mapping[intent] = categories[<<"intent", intent>>]
       /\ \A key \in DOMAIN categories : NoRepeats(categories[key])
       /\ \A intent \in DOMAIN mapping : NoRepeats(mapping[intent])

C27_CategoriesConsistent ==
    \A n \in 1..Len(result) : CategoriesConsistent(result[n])

\* a model with pages of three journey stages and several page types, one
\* of the pages with two intents
C27_Witness ==
    /\ Len(result) >= 1
    /\ Cardinality({ key \in DOMAIN result[1].content_categories :
                       key[1] = "journey" }) = 3
    /\ Cardinality({ key \in DOMAIN result[1].content_categories :
                       key[1] = "type" }) >= 3
    /\ \E i \in 1..Len(site_map) : Len(site_map[i].intent_categories) = 2

\* the place of an intent in the declaration order of intent_patterns
DeclarationIndex(intent) == CHOOSE k \in 1..Len(Intents) : Intents[k] = intent

\* C28: intent_type is the intent of the greatest keyword-hit count, the
\* earliest declared among those of equal count; with no hit at all it is
\* "information" with confidence 0.5, otherwise the confidence is
\* min(1, hits / 5).
C28_PrimaryIntent ==
    answer # <<>> =>
        LET intent == AskedIntent.intent_type
            hits(i) == IntentScore(AskedQuery, i)
        IN IF \A k \in 1..Len(Intents) : hits(Intents[k]) = 0
           THEN intent = "information" /\ AskedIntent.confidence = One \div 2
           ELSE /\ \A k \in 1..Len(Intents) : hits(Intents[k]) <= hits(intent)
                /\ \A k \in 1..Len(Intents) :
                      k < DeclarationIndex(intent) => hits(Intents[k]) < hits(intent)
                /\ AskedIntent.confidence = Min(One, (hits(intent) * One) \div 5)

\* the query has as many hits for a later intent as for the chosen one
C28_Witness ==
    /\ answer # <<>>
    /\ IntentScore(AskedQuery, AskedIntent.intent_type) >= 2
    /\ \E k \in 1..Len(Intents) :
          /\ k > DeclarationIndex(AskedIntent.intent_type)
          /\ IntentScore(AskedQuery, Intents[k])
                 = IntentScore(AskedQuery, AskedIntent.intent_type)

\* the number of the query's words, repeats counted, that are in a set
WordsIn(query, words) == Len(SelectSeq(query.words, LAMBDA w : w \in words))

\* 3 * (query words in the title) + (query words in the content)
\*   + 2 * (query words in the keywords)
WeightedScore(query, p) ==
      3 * WordsIn(query, Range(p.title))
    + WordsIn(query, p.content_words)
    + 2 * WordsIn(query, Range(p.keywords))

\* C29: the suggestions carry the weighted score of their pages; every
\* page of positive score that is not returned scores no more than any
\* returned one; and when at most 5 pages have a positive score, all of
\* them are returned.
C29_TopScoring ==
    answer # <<>> =>
        LET positive == { i \in 1..Len(site_map) :
                            WeightedScore(AskedQuery, site_map[i]) > 0 }
            returned == { AskedSuggestions[k].url : k \in 1..Len(AskedSuggestions) }
        IN /\ \A k \in 1..Len(AskedSuggestions) :
                 /\ AskedSuggestions[k].url \in Keys(site_map)
                 /\ AskedSuggestions[k].relevance_score
                        = WeightedScore(AskedQuery,
                                        PageOf(site_map, AskedSuggestions[k].url))
           /\ \A i \in positive :
                 site_map[i].url \notin returned =>
                     \A k \in 1..Len(AskedSuggestions) :
                         WeightedScore(AskedQuery, site_map[i])
                             <= AskedSuggestions[k].relevance_score
           /\ Cardinality(positive) <= 5 =>
                 returned = { site_map[i].url : i \in positive }

\* six pages have a positive score; the sixth of site_map is returned and
\* an earlier page, of a smaller score, is not
C29_Witness ==
    /\ answer # <<>>
    /\ Len(Relevant(AskedQuery, site_map)) = 6
    /\ \E k \in 1..Len(AskedSuggestions) : AskedSuggestions[k].url = site_map[6].url
    /\ \E i \in 1..5 :
          /\ \A k \in 1..Len(AskedSuggestions) : AskedSuggestions[k].url # site_map[i].url
          /\ WeightedScore(AskedQuery, site_map[i])
                 < WeightedScore(AskedQuery, site_map[6])

====
